---- MODULE Spec2Model ----
(***************************************************************************)
(* Earthquake Visualizer (src/src/App.js): the App component's state, its  *)
(* one-shot feed loader, the region selector, the magnitude filter and the *)
(* Leaflet map surface it drives.                                          *)
(*                                                                         *)
(* Units.  Magnitudes and the threshold are integers in hundredths         *)
(* (6.2 is 620), coordinates in 1e-4 degrees (34.0 is 340000,              *)
(* 36.7783 is 367783), pixel sizes in hundredths of a pixel.  The feed's   *)
(* numbers and the slider's values are decimal literals parsed to the      *)
(* nearest double; that rounding is monotone and keeps distinct decimals   *)
(* of this precision distinct, so >= on the scaled integers is >= on the   *)
(* doubles.                                                                *)
(*                                                                         *)
(* Rendering.  Every handler below runs to completion as one step of the   *)
(* single UI task queue and React commits one render after it (the state   *)
(* setters of one synchronous continuation are batched).  What is on       *)
(* screen is therefore a function of the state: ShowLoading, ShowError,    *)
(* ShowMap, Markers.                                                       *)
(***************************************************************************)
EXTENDS Integers, Sequences, FiniteSets

VARIABLES
    earthquakes,     \* useState([])            line 39
    loading,         \* useState(true)          line 40
    error,           \* useState(null)          line 41
    minMagnitude,    \* useState(0)             line 42
    selectedRegion,  \* useState(regions[0])    line 43
    pc,              \* where fetchData (lines 45-63) stands
    requests,        \* number of fetch() calls issued
    loadingSets,     \* number of setLoading(false) calls made
    outcome,         \* what the network delivered to fetchData
    maps,            \* the Leaflet map surfaces created so far, each its view
    effectPending,   \* MapViewChanger's effect is scheduled and has not run
    setViewArgs,     \* arguments of the last map.setView call, if any
    selectValue,     \* e.target.value of the last change of the region select, if any
    mag,             \* argument of a direct getColor call
    color            \* its return value

vars == <<earthquakes, loading, error, minMagnitude, selectedRegion, pc,
          requests, loadingSets, outcome, maps, effectPending, setViewArgs,
          selectValue, mag, color>>

-----------------------------------------------------------------------------
(* Bounds of the model *)

MaxEvents == 2      \* longest feed (number of feature records)
MagLow == 100       \* getColor is called on magnitudes -MagLow .. MagHigh
MagHigh == 1000

-----------------------------------------------------------------------------
(* The region catalog, lines 14-25 *)

regions ==
    << [name |-> "World",           center |-> <<200000, 0>>,         zoom |-> 2],
       [name |-> "North America",   center |-> <<540000, -1050000>>,  zoom |-> 3],
       [name |-> "South America",   center |-> <<-150000, -600000>>,  zoom |-> 3],
       [name |-> "Europe",          center |-> <<540000, 150000>>,    zoom |-> 4],
       [name |-> "Asia",            center |-> <<400000, 1000000>>,   zoom |-> 3],
       [name |-> "Africa",          center |-> <<0, 200000>>,         zoom |-> 3],
       [name |-> "Australia",       center |-> <<-250000, 1350000>>,  zoom |-> 4],
       [name |-> "India",           center |-> <<200000, 770000>>,    zoom |-> 5],
       [name |-> "Japan",           center |-> <<360000, 1380000>>,   zoom |-> 5],
       [name |-> "California, USA", center |-> <<367783, -1194179>>,  zoom |-> 6] >>

\* regions.find((r) => r.name === value): the first match, or undefined
RECURSIVE FindFrom(_, _)
FindFrom(i, value) ==
    IF i > Len(regions) THEN [found |-> FALSE, value |-> regions[1]]
    ELSE IF regions[i].name = value THEN [found |-> TRUE, value |-> regions[i]]
    ELSE FindFrom(i + 1, value)

RegionsFind(value) == FindFrom(1, value)

\* mutant: the fallback is the last entry instead of the first
RegionFor_FallbackLast(value) ==
    LET r == RegionsFind(value) IN IF r.found THEN r.value ELSE regions[Len(regions)]

\* regions.find(...) || regions[0]   (line 125)
RegionFor(value) ==
    LET r == RegionsFind(value) IN IF r.found THEN r.value ELSE regions[1]

-----------------------------------------------------------------------------
(* Values *)

\* JavaScript null / a string, as held by the error state
Null == [tag |-> "null", value |-> ""]
Str(s) == [tag |-> "string", value |-> s]

\* ToBoolean of the error state, as used by {error && ...} and !error
Truthy(v) == v.tag = "string" /\ v.value # ""

\* message of the Error thrown at line 52
NotOkMessage == "Failed to fetch earthquake data!"

\* err.message of a rejected fetch() (a TypeError; the text is the browser's)
TransportMessages == {"Failed to fetch", "NetworkError when attempting to fetch resource."}

\* err.message of a rejected response.json() (a SyntaxError)
ParseMessages == {"Unexpected token < in JSON at position 0"}

\* Feature records the feed may carry: id, properties.mag,
\* geometry.coordinates = [lon, lat, depth]
Events ==
    { [id |-> "ci1", mag |-> 620, coordinates |-> <<-1182000, 340000, 10>>],
      [id |-> "us2", mag |-> 400, coordinates |-> <<1380000, 360000, 35>>],
      [id |-> "ak3", mag |-> -50, coordinates |-> <<-1500000, 610000, 2>>] }

\* data.features of a well-formed feed: identifiers unique within a response
Feeds ==
    UNION { { f \in [1..n -> Events] :
                \A i, j \in 1..n : i # j => f[i].id # f[j].id } : n \in 0..MaxEvents }

-----------------------------------------------------------------------------
(* Rendering, lines 66-68, 71-92, 111-114, 176-184 *)

\* mutant: the predicate is mag > threshold
RECURSIVE FilterFrom_Strict(_, _, _)
FilterFrom_Strict(list, i, threshold) ==
    IF i > Len(list) THEN <<>>
    ELSE IF list[i].mag > threshold
         THEN <<list[i]>> \o FilterFrom_Strict(list, i + 1, threshold)
         ELSE FilterFrom_Strict(list, i + 1, threshold)

\* earthquakes.filter(pred): visit in order, keep the elements pred accepts
RECURSIVE FilterFrom(_, _, _)
FilterFrom(list, i, threshold) ==
    IF i > Len(list) THEN <<>>
    ELSE IF list[i].mag >= threshold
         THEN <<list[i]>> \o FilterFrom(list, i + 1, threshold)
         ELSE FilterFrom(list, i + 1, threshold)

FilterQuakes(list, threshold) == FilterFrom(list, 1, threshold)

filteredQuakes == FilterQuakes(earthquakes, minMagnitude)

\* mutant: the top bucket starts above 6.0
getColor_OpenTop(m) ==
    IF m > 600 THEN "red"
    ELSE IF m >= 500 THEN "orange"
    ELSE IF m >= 400 THEN "yellow"
    ELSE "blue"

getColor(m) ==
    IF m >= 600 THEN "red"
    ELSE IF m >= 500 THEN "orange"
    ELSE IF m >= 400 THEN "yellow"
    ELSE "blue"

\* the divIcon of lines 79-92: background colour and width/height 8 + mag * 3
createMarkerIcon(m) == [color |-> getColor(m), size |-> 800 + m * 3]

\* mutant: the coordinates are passed on as [lon, lat]
MarkerOf_LonLat(quake) ==
    [key |-> quake.id,
     position |-> <<quake.coordinates[1], quake.coordinates[2]>>,
     icon |-> createMarkerIcon(quake.mag)]

\* one <Marker> of lines 176-184
MarkerOf(quake) ==
    LET lon == quake.coordinates[1]
        lat == quake.coordinates[2]
    IN  [key |-> quake.id, position |-> <<lat, lon>>,
         icon |-> createMarkerIcon(quake.mag)]

ShowLoading == loading
ShowError == Truthy(error)
ShowMap == ~loading /\ ~Truthy(error)

\* the markers on the map; none when the map is not rendered
Markers ==
    IF ShowMap
    THEN [i \in 1..Len(filteredQuakes) |-> MarkerOf(filteredQuakes[i])]
    ELSE <<>>

-----------------------------------------------------------------------------
(* The map surface, lines 28-36 and 161-174 *)

ViewOf(region) == [center |-> region.center, zoom |-> region.zoom]

\* mutant: the effect has no dependency list and runs after every render
DepsChanged_Always(before, after) == TRUE

\* the dependency list [center, zoom, map] of MapViewChanger's effect
DepsChanged(before, after) ==
    before.center # after.center \/ before.zoom # after.zoom

\* mutant: <MapContainer key={selectedRegion.name}>
MapContainerKey_ByRegion(region) == region.name

\* <MapContainer> carries no key: one element identity whatever the region
MapContainerKey(region) == "MapContainer"

\* React's commit of the map subtree after a state change:
\* shown for the first time (or under a new identity) -> a new Leaflet map is
\* created at the props' center/zoom and MapViewChanger's effect is scheduled;
\* still shown -> the surface is kept and the effect is scheduled when its
\* dependencies changed.
Commit(shownBefore, shownAfter, regionBefore, regionAfter) ==
    IF ~shownAfter
    THEN [maps |-> maps, pending |-> FALSE]
    ELSE IF ~shownBefore
            \/ MapContainerKey(regionBefore) # MapContainerKey(regionAfter)
         THEN [maps |-> Append(maps, ViewOf(regionAfter)), pending |-> TRUE]
         ELSE [maps |-> maps,
               pending |-> effectPending \/ DepsChanged(regionBefore, regionAfter)]

\* the view of the surface on screen
MapView == maps[Len(maps)]

\* a view the user can drag/zoom the map to
PanViews == { [center |-> <<0, 0>>, zoom |-> 1] }

-----------------------------------------------------------------------------
(* Initial state: the component after its first render *)

NoOutcome == [kind |-> "none", features |-> <<>>]

InitApp ==
    /\ earthquakes = <<>>
    /\ loading = TRUE
    /\ error = Null
    /\ minMagnitude = 0
    /\ selectedRegion = regions[1]
    /\ pc = "idle"
    /\ requests = 0
    /\ loadingSets = 0
    /\ outcome = NoOutcome
    /\ maps = <<>>
    /\ effectPending = FALSE
    /\ setViewArgs = <<>>
    /\ selectValue = <<>>

Init == InitApp /\ mag = 0 /\ color = "none"

-----------------------------------------------------------------------------
(* The Data Loader: useEffect(() => { fetchData() }, []), lines 45-63 *)

\* mutant: the catch block does not call setError
OnFailure_NoSetError(message) ==
    [earthquakes |-> earthquakes, error |-> error, loading |-> FALSE,
     setLoadingCalls |-> 1]

\* mutant: setLoading(false) sits at the end of the try block, not in finally
OnFailure_NoFinally(message) ==
    [earthquakes |-> earthquakes, error |-> Str(message), loading |-> loading,
     setLoadingCalls |-> 0]

\* catch (line 57) followed by finally (line 59)
OnFailure(message) ==
    [earthquakes |-> earthquakes, error |-> Str(message), loading |-> FALSE,
     setLoadingCalls |-> 1]

\* mutant: the success path never calls setLoading(false)
OnSuccess_KeepsLoading(features) ==
    [earthquakes |-> features, error |-> error, loading |-> loading,
     setLoadingCalls |-> 0]

\* mutant: the response.ok test is inverted, so a good response throws
OnSuccess_Throws(features) ==
    [earthquakes |-> earthquakes, error |-> Str(NotOkMessage), loading |-> FALSE,
     setLoadingCalls |-> 1]

\* setEarthquakes(data.features) (line 55) followed by finally (line 59)
OnSuccess(features) ==
    [earthquakes |-> features, error |-> error, loading |-> FALSE,
     setLoadingCalls |-> 1]

\* the state after fetchData's last continuation, and the render it causes
Settle(next, delivered) ==
    LET shownAfter == ~next.loading /\ ~Truthy(next.error)
        c == Commit(ShowMap, shownAfter, selectedRegion, selectedRegion)
    IN  /\ earthquakes' = next.earthquakes
        /\ error' = next.error
        /\ loading' = next.loading
        /\ loadingSets' = loadingSets + next.setLoadingCalls
        /\ pc' = "settled"
        /\ outcome' = delivered
        /\ maps' = c.maps
        /\ effectPending' = c.pending
        /\ UNCHANGED <<minMagnitude, selectedRegion, requests, setViewArgs,
                       selectValue, mag, color>>

\* the mount effect runs once, after the first render: fetch(url) is called
MountEffect ==
    /\ pc = "idle"
    /\ pc' = "fetching"
    /\ requests' = requests + 1
    /\ UNCHANGED <<earthquakes, loading, error, minMagnitude, selectedRegion,
                   loadingSets, outcome, maps, effectPending, setViewArgs,
                   selectValue, mag, color>>

\* await fetch(...) rejects: transport failure
FetchRejects ==
    /\ pc = "fetching"
    /\ \E m \in TransportMessages :
          Settle(OnFailure(m), [kind |-> "rejected", features |-> <<>>])

\* await fetch(...) resolves with a non-2xx response: line 52 throws
FetchResolvesNotOk ==
    /\ pc = "fetching"
    /\ Settle(OnFailure(NotOkMessage), [kind |-> "notOk", features |-> <<>>])

\* await fetch(...) resolves with response.ok: response.json() is awaited
FetchResolvesOk ==
    /\ pc = "fetching"
    /\ pc' = "parsing"
    /\ UNCHANGED <<earthquakes, loading, error, minMagnitude, selectedRegion,
                   requests, loadingSets, outcome, maps, effectPending,
                   setViewArgs, selectValue, mag, color>>

\* await response.json() rejects: the body does not parse
JsonRejects ==
    /\ pc = "parsing"
    /\ \E m \in ParseMessages :
          Settle(OnFailure(m), [kind |-> "parseError", features |-> <<>>])

\* await response.json() resolves with a feed whose features array is f
JsonResolves ==
    /\ pc = "parsing"
    /\ \E f \in Feeds :
          Settle(OnSuccess(f), [kind |-> "ok", features |-> f])

-----------------------------------------------------------------------------
(* The controls, lines 120-127 and 149-157.  They exist only while the map  *)
(* view is rendered; React runs a scheduled effect before it renders the    *)
(* next update.                                                             *)

\* names the select can deliver: the options, and one that is no option
AbsentNames == {"Atlantis"}
Names == {regions[i].name : i \in 1..Len(regions)} \cup AbsentNames

\* the range input: min="0" max="10" step="0.1"; its value is a decimal string
SliderPositions == 0..100
SliderValue(pos) == [whole |-> pos \div 10, tenths |-> pos % 10]

\* parseFloat of such a string, in hundredths
parseFloat(s) == s.whole * 100 + s.tenths * 10

\* onChange of the region select
SelectRegion ==
    /\ ShowMap
    /\ ~effectPending
    /\ \E value \in Names :
          LET region == RegionFor(value)
              c == Commit(ShowMap, ShowMap, selectedRegion, region)
          IN  /\ selectedRegion' = region
              /\ maps' = c.maps
              /\ effectPending' = c.pending
              /\ selectValue' = <<value>>
    /\ UNCHANGED <<earthquakes, loading, error, minMagnitude, pc, requests,
                   loadingSets, outcome, setViewArgs, mag, color>>

\* onChange of the magnitude slider
SetMinMagnitude ==
    /\ ShowMap
    /\ ~effectPending
    /\ \E pos \in SliderPositions :
          LET c == Commit(ShowMap, ShowMap, selectedRegion, selectedRegion)
          IN  /\ minMagnitude' = parseFloat(SliderValue(pos))
              /\ maps' = c.maps
              /\ effectPending' = c.pending
    /\ UNCHANGED <<earthquakes, loading, error, selectedRegion, pc, requests,
                   loadingSets, outcome, setViewArgs, selectValue, mag, color>>

\* MapViewChanger's effect: if (center) map.setView(center, zoom)
MapViewChangerEffect ==
    /\ effectPending
    /\ maps # <<>>
    /\ maps' = [maps EXCEPT ![Len(maps)] = ViewOf(selectedRegion)]
    /\ setViewArgs' = <<ViewOf(selectedRegion)>>
    /\ effectPending' = FALSE
    /\ UNCHANGED <<earthquakes, loading, error, minMagnitude, selectedRegion,
                   pc, requests, loadingSets, outcome, selectValue, mag, color>>

\* the user drags or zooms the Leaflet map
Pan ==
    /\ maps # <<>>
    /\ \E v \in PanViews :
          /\ v # MapView
          /\ maps' = [maps EXCEPT ![Len(maps)] = v]
    /\ UNCHANGED <<earthquakes, loading, error, minMagnitude, selectedRegion,
                   pc, requests, loadingSets, outcome, effectPending,
                   setViewArgs, selectValue, mag, color>>

Next ==
    \/ MountEffect
    \/ FetchRejects
    \/ FetchResolvesNotOk
    \/ FetchResolvesOk
    \/ JsonRejects
    \/ JsonResolves
    \/ SelectRegion
    \/ SetMinMagnitude
    \/ MapViewChangerEffect
    \/ Pan

Spec == Init /\ [][Next]_vars

-----------------------------------------------------------------------------
(* getColor called directly on every magnitude of a range *)

InitColor == InitApp /\ mag \in (0 - MagLow)..MagHigh /\ color = "none"

CallGetColor ==
    /\ color = "none"
    /\ color' = getColor(mag)
    /\ UNCHANGED <<mag, earthquakes, loading, error, minMagnitude,
                   selectedRegion, pc, requests, loadingSets, outcome, maps,
                   effectPending, setViewArgs, selectValue>>

NextColor == CallGetColor

SpecColor == InitColor /\ [][NextColor]_vars

-----------------------------------------------------------------------------
(* Shorthands of the properties *)

Failed == outcome.kind \in {"rejected", "notOk", "parseError"}
Catalog == {regions[i] : i \in 1..Len(regions)}
Bucket(c) == CASE c = "blue" -> 1 [] c = "yellow" -> 2 [] c = "orange" -> 3
               [] c = "red" -> 4 [] OTHER -> 0

\* positions of list whose magnitude is at least t
Kept(list, t) == {i \in 1..Len(list) : list[i].mag >= t}

\* the j-th smallest element of a set of positions
Nth(S, j) == CHOOSE i \in S : Cardinality({k \in S : k < i}) = j - 1

\* sub is list restricted to the positions in S, order kept
IsRestriction(sub, list, S) ==
    /\ Len(sub) = Cardinality(S)
    /\ \A j \in 1..Len(sub) : sub[j] = list[Nth(S, j)]

-----------------------------------------------------------------------------
(* C1 as stated: loading is true exactly while the feed request is pending. *)
(* Fails in the initial state: the first render already has loading = true  *)
(* and the mount effect has not yet issued the request.                     *)
C1_LoadingExactlyWhilePending ==
    loading <=> (pc \in {"fetching", "parsing"} /\ requests = 1)

(* C1 amended: the loader goes idle -> fetching (-> parsing) -> settled and  *)
(* settled is terminal; at most one request is ever issued, exactly one     *)
(* once the mount effect has run; loading is true from construction until   *)
(* the request settles and false from then on; setLoading(false) is called  *)
(* exactly once, at settlement; after settlement no step issues a request,  *)
(* calls setLoading again or makes loading true.                            *)
C1_LoaderLifecycle ==
    /\ [](/\ pc \in {"idle", "fetching", "parsing", "settled"}
          /\ requests = (IF pc = "idle" THEN 0 ELSE 1)
          /\ loading <=> (pc # "settled")
          /\ loadingSets = (IF pc = "settled" THEN 1 ELSE 0)
          /\ (outcome.kind # "none") <=> (pc = "settled"))
    /\ [][pc' # pc => <<pc, pc'>> \in {<<"idle", "fetching">>,
                                       <<"fetching", "parsing">>,
                                       <<"fetching", "settled">>,
                                       <<"parsing", "settled">>}]_vars
    /\ [][pc = "settled" => /\ pc' = "settled"
                            /\ loading' = FALSE
                            /\ requests' = requests
                            /\ loadingSets' = loadingSets]_vars

\* settled, and the user has since selected a region and moved the slider
C1_Witness ==
    /\ pc = "settled"
    /\ requests = 1
    /\ ~loading
    /\ selectValue # <<>>
    /\ minMagnitude # 0

(* C2: whichever way the fetch fails (rejected, non-2xx, body that does not *)
(* parse), after settlement loading is false, the error is a non-empty      *)
(* string, the event list is still empty, and neither map nor marker is     *)
(* rendered.                                                                *)
C2_FailureState ==
    (pc = "settled" /\ Failed) =>
        /\ loading = FALSE
        /\ error.tag = "string" /\ error.value # ""
        /\ ShowError
        /\ earthquakes = <<>>
        /\ ~ShowMap
        /\ Markers = <<>>
        /\ maps = <<>>

C2_Witness == pc = "settled" /\ outcome.kind = "parseError" /\ ShowError

(* C3: after a successful fetch of a feed with event array E, loading is    *)
(* false, the error is null, the loaded list is E, the map is rendered, and *)
(* there is exactly one marker per event of E with magnitude >= threshold,  *)
(* at (latitude, longitude) of that event; an empty E gives no marker; the  *)
(* magnitude 6.2 event at lon -118.2, lat 34.0 gives one marker at          *)
(* (34.0, -118.2) at threshold 0 and none at threshold 6.5.                 *)
C3_SuccessState ==
    outcome.kind = "ok" =>
        LET E == outcome.features IN
        /\ pc = "settled"
        /\ loading = FALSE
        /\ error = Null
        /\ earthquakes = E
        /\ ShowMap /\ Len(maps) = 1
        /\ Len(Markers) = Cardinality({i \in 1..Len(E) : E[i].mag >= minMagnitude})
        /\ \A i \in 1..Len(E) :
              LET hits == {j \in 1..Len(Markers) : Markers[j].key = E[i].id} IN
              IF E[i].mag >= minMagnitude
              THEN /\ Cardinality(hits) = 1
                   /\ \A j \in hits :
                         Markers[j].position = <<E[i].coordinates[2], E[i].coordinates[1]>>
              ELSE hits = {}
        /\ (E = <<>> => Markers = <<>>)
        /\ (E = <<[id |-> "ci1", mag |-> 620,
                   coordinates |-> <<-1182000, 340000, 10>>]>> =>
               /\ (minMagnitude = 0 =>
                      /\ Len(Markers) = 1
                      /\ Markers[1].position = <<340000, -1182000>>)
               /\ (minMagnitude = 650 => Markers = <<>>))

C3_Witness ==
    /\ outcome.kind = "ok"
    /\ Len(earthquakes) = 1 /\ earthquakes[1].mag = 620
    /\ minMagnitude = 650
    /\ ShowMap

(* C4: the threshold is always one of the slider's values 0, 0.1, ..., 10;  *)
(* the filtered list is exactly the loaded events with magnitude >= the     *)
(* threshold, in their original order; filtering the filtered list again at *)
(* the same threshold changes nothing; a threshold change leaves the loaded *)
(* list as it was.                                                          *)
C4_Filter ==
    /\ [](/\ minMagnitude \in {10 * k : k \in 0..100}
          /\ IsRestriction(filteredQuakes, earthquakes,
                           Kept(earthquakes, minMagnitude))
          /\ FilterQuakes(filteredQuakes, minMagnitude) = filteredQuakes)
    /\ [][minMagnitude' # minMagnitude => earthquakes' = earthquakes]_vars

\* threshold 4.0 over a list holding a 4.0 event and a weaker one
C4_Witness ==
    /\ pc = "settled"
    /\ Len(earthquakes) = 2
    /\ minMagnitude = 400
    /\ Len(filteredQuakes) = 1
    /\ filteredQuakes[1].mag = 400

(* C5: the selected region is always an entry of the catalog; it is the     *)
(* first entry (World) before any selection; after a selection by a name of *)
(* the catalog it is that entry, with its center and zoom; after a          *)
(* selection by any other name it is the first entry.                       *)
C5_RegionSelection ==
    /\ selectedRegion \in Catalog
    /\ (selectValue = <<>> => selectedRegion = regions[1])
    /\ regions[1].name = "World"
    /\ (selectValue # <<>> =>
          LET v == selectValue[1] IN
          IF \E r \in Catalog : r.name = v
          THEN /\ selectedRegion.name = v
               /\ \A r \in Catalog : r.name = v =>
                     /\ selectedRegion.center = r.center
                     /\ selectedRegion.zoom = r.zoom
          ELSE selectedRegion = regions[1])
    /\ (selectValue = <<"Japan">> =>
          selectedRegion.center = <<360000, 1380000>> /\ selectedRegion.zoom = 5)

C5_Witness == selectValue = <<"Atlantis">> /\ selectedRegion.name = "World"

(* C6: getColor is total, with closed-open buckets rising with magnitude:   *)
(* below 4.0 blue (1), 4.0 to below 5.0 yellow (2), 5.0 to below 6.0 orange *)
(* (3), 6.0 and above red (4); so 3.9 -> 1, 4.0 -> 2, 4.9 -> 2, 5.0 -> 3,   *)
(* 5.9 -> 3, 6.0 -> 4, 9.0 -> 4; a larger magnitude never gets a lower      *)
(* bucket.                                                                  *)
C6_ColorBuckets ==
    color # "none" =>
        /\ color \in {"blue", "yellow", "orange", "red"}
        /\ (mag < 400 <=> Bucket(color) = 1)
        /\ (400 <= mag /\ mag < 500 <=> Bucket(color) = 2)
        /\ (500 <= mag /\ mag < 600 <=> Bucket(color) = 3)
        /\ (mag >= 600 <=> Bucket(color) = 4)
        /\ (mag = 390 => Bucket(color) = 1)
        /\ (mag = 400 => Bucket(color) = 2)
        /\ (mag = 490 => Bucket(color) = 2)
        /\ (mag = 500 => Bucket(color) = 3)
        /\ (mag = 590 => Bucket(color) = 3)
        /\ (mag = 600 => Bucket(color) = 4)
        /\ (mag = 900 => Bucket(color) = 4)
        /\ \A m \in (0 - MagLow)..MagHigh :
              m >= mag => Bucket(getColor(m)) >= Bucket(color)

C6_Witness == mag = 600 /\ color = "red"

(* C7: exactly one of the three views is on screen: the loading message     *)
(* until the fetch settles, the error message after a failed fetch, the     *)
(* controls and the map after a successful one; loading and error messages  *)
(* are never shown together, and controls and map only with loading false   *)
(* and a null error.                                                        *)
C7_OneView ==
    /\ (ShowLoading /\ ~ShowError /\ ~ShowMap)
       \/ (~ShowLoading /\ ShowError /\ ~ShowMap)
       \/ (~ShowLoading /\ ~ShowError /\ ShowMap)
    /\ ShowLoading <=> (pc # "settled")
    /\ ShowError <=> (pc = "settled" /\ Failed)
    /\ ShowMap <=> (pc = "settled" /\ outcome.kind = "ok")
    /\ (ShowMap => loading = FALSE /\ error = Null)
    /\ (maps # <<>> => ShowMap)

C7_Witness == ShowError /\ ~ShowLoading /\ ~ShowMap /\ outcome.kind = "notOk"

(* C8: the error is non-null only after a failed fetch; on the success path *)
(* it stays null; once non-null, no step changes it.                        *)
C8_ErrorSticky ==
    /\ [](/\ (error # Null => pc = "settled" /\ Failed)
          /\ (outcome.kind = "ok" => error = Null)
          /\ (pc # "settled" => error = Null))
    /\ [][error # Null => error' = error]_vars

C8_Witness ==
    /\ outcome.kind = "ok"
    /\ error = Null
    /\ selectValue # <<>>
    /\ minMagnitude = 1000

(* C9: one map surface is created, on entering the loaded state, and none   *)
(* after; a change of the selected region keeps that surface and schedules  *)
(* MapViewChanger's effect; when the effect runs it calls setView on that   *)
(* surface with the selected region's center and zoom, after which the      *)
(* map's center and zoom are the selected region's.                         *)
C9_Recenter ==
    /\ [](/\ Len(maps) <= 1
          /\ (Len(maps) = 1 <=> ShowMap)
          /\ (maps # <<>> /\ ~effectPending =>
                 setViewArgs = <<ViewOf(selectedRegion)>>))
    /\ [][selectedRegion' # selectedRegion =>
             /\ maps' = maps
             /\ effectPending']_vars
    /\ [][minMagnitude' # minMagnitude => maps' = maps]_vars
    /\ [][effectPending /\ ~effectPending' =>
             /\ Len(maps') = Len(maps)
             /\ setViewArgs' = <<[center |-> selectedRegion.center,
                                  zoom |-> selectedRegion.zoom]>>
             /\ maps'[Len(maps')] = [center |-> selectedRegion'.center,
                                     zoom |-> selectedRegion'.zoom]]_vars

\* the map re-centred on Japan after the user had dragged it away
C9_Witness ==
    /\ Len(maps) = 1
    /\ ~effectPending
    /\ selectedRegion.name = "Japan"
    /\ MapView = [center |-> <<360000, 1380000>>, zoom |-> 5]
    /\ setViewArgs = <<MapView>>

(* C10: a region selection leaves the threshold, the loaded list, the       *)
(* filtered list and the markers as they were; a threshold change leaves    *)
(* the selected region, the map's center and zoom (and any scheduled        *)
(* re-centring) and the loaded list as they were; neither changes loading   *)
(* or error.                                                                *)
C10_Independence ==
    /\ [][(selectedRegion' # selectedRegion \/ selectValue' # selectValue) =>
             /\ minMagnitude' = minMagnitude
             /\ earthquakes' = earthquakes
             /\ filteredQuakes' = filteredQuakes
             /\ Markers' = Markers
             /\ loading' = loading
             /\ error' = error]_vars
    /\ [][minMagnitude' # minMagnitude =>
             /\ selectedRegion' = selectedRegion
             /\ selectValue' = selectValue
             /\ maps' = maps
             /\ effectPending' = effectPending
             /\ setViewArgs' = setViewArgs
             /\ earthquakes' = earthquakes
             /\ loading' = loading
             /\ error' = error]_vars

\* a dragged map that stayed where it was while the threshold was raised
C10_Witness ==
    /\ selectedRegion.name = "India"
    /\ minMagnitude = 650
    /\ Len(maps) = 1
    /\ MapView \in PanViews
    /\ ~effectPending
    /\ Len(Markers) < Len(earthquakes)

====
